---- MODULE Spec2Model ----
(***************************************************************************)
(* The owned-coin ledger of src/src/coins.rs (struct Coins): the three     *)
(* maps confirmed, unconfirmed and proofs, the scanning entry points       *)
(* process and process_unconfirmed_transaction, remove_confirmed,          *)
(* unwind_tip and the coin selection get_confirmed_coins.                  *)
(*                                                                         *)
(* A map (HashMap) is a TLA+ function whose DOMAIN is its key set.  A      *)
(* Vec is a sequence; vout and txnr are 0-based as in the source, so       *)
(* element n of a Vec v is v[n + 1].                                       *)
(***************************************************************************)
EXTENDS Integers, Sequences, FiniteSets, TLC

VARIABLES
    confirmed,      \* Coins.confirmed: OutPoint -> Coin
    unconfirmed,    \* Coins.unconfirmed: OutPoint -> Coin
    proofs,         \* Coins.proofs: txid -> ProvedTransaction
    instantiated,   \* the master account: number of keys it has derived and watches
    hist,           \* the calls made so far, each with the ledger it left behind
    rec,            \* TRUE: hist keeps every call; FALSE: the last call and the one before
    minimum,        \* get_confirmed_coins: argument minimum
    height,         \* get_confirmed_coins: argument height
    block_height,   \* get_confirmed_coins: the caller's lookup, block hash -> height or None
    selected        \* get_confirmed_coins: what the call produced (NotCalled before it)

vars == <<confirmed, unconfirmed, proofs, instantiated, hist, rec,
          minimum, height, block_height, selected>>

selvars == <<minimum, height, block_height, selected>>

----------------------------------------------------------------------------
(* Maps *)

EmptyMap == [x \in {} |-> 0]

Insert(m, k, v) == [x \in (DOMAIN m) \cup {k} |-> IF x = k THEN v ELSE m[x]]

Remove(m, k) == [x \in (DOMAIN m) \ {k} |-> m[x]]

Max(a, b) == IF a >= b THEN a ELSE b

None == <<>>

Some(x) == <<x>>

----------------------------------------------------------------------------
(* Value types *)

OutPoint(txid, vout) == [txid |-> txid, vout |-> vout]

TxOut(value, script_pubkey) == [value |-> value, script_pubkey |-> script_pubkey]

KeyDerivation(kix, csv) == [kix |-> kix, csv |-> csv]

Coin(output, derivation) == [output |-> output, derivation |-> derivation]

\* ProvedTransaction::new(block, txnr), with get_block_hash and get_transaction().txid()
ProvedTransaction(block, txnr) ==
    [block_hash |-> block.hash, txid |-> block.txdata[txnr + 1].txid]

----------------------------------------------------------------------------
(* The key-derivation collaborator (MasterAccount / Account).  One account, *)
(* one sub-account without CSV: key kix pays KeyScript(kix).  The account   *)
(* watches the keys 0 .. instantiated - 1.                                  *)

LookAhead == 1

AccountCsv == None

KeyScript(kix) == <<"key", kix>>

ForeignScript == <<"foreign", 0>>

\* master_account.get_scripts().collect(): script -> derivation
GetScripts(n) ==
    [s \in {KeyScript(k) : k \in 0 .. n - 1} |-> KeyDerivation(s[2], AccountCsv)]

\* do_look_ahead(Some(kix)): the window is extended past kix; the keys newly
\* derived are returned.
DoLookAhead(n, kix) ==
    LET upto == Max(n, kix + 1 + LookAhead)
    IN  [instantiated |-> upto, new |-> n .. upto - 1]

----------------------------------------------------------------------------
(* The transactions and blocks the ledger is fed.  A txid determines its   *)
(* transaction and a block hash its block, so both are fixed tables.       *)

T1 == "T1"
T2 == "T2"
T3 == "T3"
T4 == "T4"

Txids == {T1, T2, T3, T4}

TxIn(previous_output) == [previous_output |-> previous_output]

\* The previous output of a coinbase input, and an output of a foreign transaction.
NullOutPoint == OutPoint("null", 0)
ForeignOutPoint == OutPoint("foreign", 0)

\* A coinbase that pays nobody the wallet knows.
Coinbase(txid) ==
    [txid |-> txid, input |-> <<TxIn(NullOutPoint)>>,
     output |-> <<TxOut(50, ForeignScript)>>]

\* T1 pays key 0; T2 spends it and pays key 1; T3 spends that and pays key 0, a
\* foreign script and key 1; T4 spends both owned outputs of T3.
Tx(txid) ==
    CASE txid = T1 ->
           [txid |-> T1, input |-> <<TxIn(ForeignOutPoint)>>,
            output |-> <<TxOut(5000, KeyScript(0))>>]
      [] txid = T2 ->
           [txid |-> T2, input |-> <<TxIn(OutPoint(T1, 0))>>,
            output |-> <<TxOut(3000, KeyScript(1))>>]
      [] txid = T3 ->
           [txid |-> T3, input |-> <<TxIn(OutPoint(T2, 0))>>,
            output |-> <<TxOut(1000, KeyScript(0)), TxOut(500, ForeignScript),
                         TxOut(1400, KeyScript(1))>>]
      [] txid = T4 ->
           [txid |-> T4, input |-> <<TxIn(OutPoint(T3, 0)), TxIn(OutPoint(T3, 2))>>,
            output |-> <<TxOut(2300, ForeignScript)>>]

B1 == "B1"
B2 == "B2"
B3 == "B3"
B4 == "B4"
B5 == "B5"

BlockHashes == {B1, B2, B3, B4, B5}

\* B3 and B4 are competing blocks that both confirm T3, B2 and B5 both confirm
\* T2, and B1, B3 and B4 all confirm T1; in B5 the spending transaction T2
\* stands first, where process takes it for the coinbase.
Block(hash) ==
    [hash |-> hash,
     txdata |-> CASE hash = B1 -> <<Coinbase("C1"), Tx(T1)>>
                  [] hash = B2 -> <<Coinbase("C2"), Tx(T2)>>
                  [] hash = B3 -> <<Coinbase("C3"), Tx(T1), Tx(T3)>>
                  [] hash = B4 -> <<Coinbase("C4"), Tx(T1), Tx(T3), Tx(T4)>>
                  [] hash = B5 -> <<Tx(T2)>>]

\* The output references remove_confirmed is called with.
Points ==
    {OutPoint(T1, 0), OutPoint(T2, 0), OutPoint(T3, 0), OutPoint(T3, 1), OutPoint(T3, 2)}

----------------------------------------------------------------------------
(* The ledger operations.  Each works on a record st holding the ledger    *)
(* (confirmed, unconfirmed, proofs), the account (instantiated) and the    *)
(* locals of the call (scripts, modified, ret).                            *)

Self ==
    [confirmed |-> confirmed, unconfirmed |-> unconfirmed, proofs |-> proofs,
     instantiated |-> instantiated, scripts |-> EmptyMap, modified |-> FALSE,
     ret |-> FALSE]

\* remove_confirmed without the check for other outputs of the transaction
RemoveConfirmedAndProof(st, point) ==
    LET modified == point \in DOMAIN st.confirmed
    IN  [st EXCEPT !.confirmed = Remove(@, point),
                   !.proofs = IF modified THEN Remove(@, point.txid) ELSE @,
                   !.ret = modified]

\* remove_confirmed that never drops the proof
RemoveConfirmedKeepsProof(st, point) ==
    [st EXCEPT !.confirmed = Remove(@, point), !.ret = point \in DOMAIN st.confirmed]

\* remove_confirmed; ret is its return value
RemoveConfirmed(st, point) ==
    LET modified == point \in DOMAIN st.confirmed
        conf == Remove(st.confirmed, point)
        orphan == modified /\ ~ \E p \in DOMAIN conf : p.txid = point.txid
    IN  [st EXCEPT !.confirmed = conf,
                   !.proofs = IF orphan THEN Remove(@, point.txid) ELSE @,
                   !.ret = modified]

\* the input loop removing the spent output from unconfirmed as well
RECURSIVE SpendInputsBoth(_, _, _)
SpendInputsBoth(st, input, n) ==
    IF n >= Len(input) THEN st
    ELSE LET r == RemoveConfirmed(st, input[n + 1].previous_output)
             gone == [r EXCEPT !.unconfirmed = Remove(@, input[n + 1].previous_output),
                               !.modified = st.modified \/ r.ret]
         IN  SpendInputsBoth(gone, input, n + 1)

\* for input in transaction.input.iter() { modified |= self.remove_confirmed(..) }
RECURSIVE SpendInputs(_, _, _)
SpendInputs(st, input, n) ==
    IF n >= Len(input) THEN st
    ELSE LET r == RemoveConfirmed(st, input[n + 1].previous_output)
         IN  SpendInputs([r EXCEPT !.modified = st.modified \/ r.ret], input, n + 1)

\* the lookahead of one matched output without scripts.insert: the account
\* derives the new keys, the scan's working copy stays as it was
ExtendAccountOnly(st, d) ==
    [st EXCEPT !.instantiated = DoLookAhead(st.instantiated, d.kix).instantiated]

\* the lookahead of one matched output: the account derives the new keys and
\* the scan's working copy of the watched scripts gains them
Extend(st, d) ==
    LET la == DoLookAhead(st.instantiated, d.kix)
        lookahead == [s \in {KeyScript(k) : k \in la.new} |-> KeyDerivation(s[2], d.csv)]
    IN  [st EXCEPT !.instantiated = la.instantiated,
                   !.scripts = [s \in (DOMAIN @) \cup (DOMAIN lookahead) |->
                                   IF s \in DOMAIN lookahead THEN lookahead[s] ELSE @[s]]]

\* process_unconfirmed_transaction: the loop over the outputs, from output vout on
RECURSIVE UnconfirmedOutputs(_, _, _)
UnconfirmedOutputs(st, transaction, vout) ==
    IF vout >= Len(transaction.output) THEN st
    ELSE LET output == transaction.output[vout + 1]
             d == st.scripts[output.script_pubkey]
             hit == [Extend(st, d) EXCEPT
                        !.unconfirmed = Insert(@, OutPoint(transaction.txid, vout),
                                               Coin(output, d)),
                        !.modified = TRUE]
         IN  UnconfirmedOutputs(
                 IF output.script_pubkey \in DOMAIN st.scripts THEN hit ELSE st,
                 transaction, vout + 1)

\* process_unconfirmed_transaction; modified is its return value
ProcessUnconfirmedTransaction(st, transaction) ==
    LET snap == [st EXCEPT !.scripts = GetScripts(st.instantiated), !.modified = FALSE]
    IN  UnconfirmedOutputs(SpendInputs(snap, transaction.input, 0), transaction, 0)

\* self.proofs.entry(txid).or_insert(proof)
OrInsert(m, txid, proof) == IF txid \in DOMAIN m THEN m ELSE Insert(m, txid, proof)

\* process with the coin stored under output 0 whatever vout is
ConfirmOutputAtZero(st, block, txnr, vout, d) ==
    LET tx == block.txdata[txnr + 1]
        point == OutPoint(tx.txid, 0)
    IN  [st EXCEPT !.unconfirmed = Remove(@, point),
                   !.confirmed = Insert(@, point, Coin(tx.output[vout + 1], d)),
                   !.proofs = OrInsert(@, tx.txid, ProvedTransaction(block, txnr)),
                   !.modified = TRUE]

\* process that leaves the unconfirmed entry of a confirmed output in place
ConfirmOutputKeepsUnconfirmed(st, block, txnr, vout, d) ==
    LET tx == block.txdata[txnr + 1]
        point == OutPoint(tx.txid, vout)
    IN  [st EXCEPT !.confirmed = Insert(@, point, Coin(tx.output[vout + 1], d)),
                   !.proofs = OrInsert(@, tx.txid, ProvedTransaction(block, txnr)),
                   !.modified = TRUE]

\* process: what a matched output does to the ledger
ConfirmOutput(st, block, txnr, vout, d) ==
    LET tx == block.txdata[txnr + 1]
        point == OutPoint(tx.txid, vout)
    IN  [st EXCEPT !.unconfirmed = Remove(@, point),
                   !.confirmed = Insert(@, point, Coin(tx.output[vout + 1], d)),
                   !.proofs = OrInsert(@, tx.txid, ProvedTransaction(block, txnr)),
                   !.modified = TRUE]

\* process: the loop over the outputs of transaction txnr, from output vout on
RECURSIVE ProcessOutputs(_, _, _, _)
ProcessOutputs(st, block, txnr, vout) ==
    LET tx == block.txdata[txnr + 1]
    IN  IF vout >= Len(tx.output) THEN st
        ELSE LET output == tx.output[vout + 1]
                 d == st.scripts[output.script_pubkey]
             IN  ProcessOutputs(
                     IF output.script_pubkey \in DOMAIN st.scripts
                     THEN ConfirmOutput(Extend(st, d), block, txnr, vout, d)
                     ELSE st,
                     block, txnr, vout + 1)

\* process that checks the inputs of the first transaction too
RECURSIVE ProcessTxsAllInputs(_, _, _)
ProcessTxsAllInputs(st, block, txnr) ==
    IF txnr >= Len(block.txdata) THEN st
    ELSE LET tx == block.txdata[txnr + 1]
             spent == SpendInputs(st, tx.input, 0)
         IN  ProcessTxsAllInputs(ProcessOutputs(spent, block, txnr, 0), block, txnr + 1)

\* process that does not look at inputs
RECURSIVE ProcessTxsNoInputs(_, _, _)
ProcessTxsNoInputs(st, block, txnr) ==
    IF txnr >= Len(block.txdata) THEN st
    ELSE ProcessTxsNoInputs(ProcessOutputs(st, block, txnr, 0), block, txnr + 1)

\* process: the loop over the transactions of the block, from transaction txnr on
RECURSIVE ProcessTxs(_, _, _)
ProcessTxs(st, block, txnr) ==
    IF txnr >= Len(block.txdata) THEN st
    ELSE LET tx == block.txdata[txnr + 1]
             spent == IF txnr > 0 THEN SpendInputs(st, tx.input, 0) ELSE st
         IN  ProcessTxs(ProcessOutputs(spent, block, txnr, 0), block, txnr + 1)

\* process; modified is its return value
Process(st, block) ==
    ProcessTxs([st EXCEPT !.scripts = GetScripts(st.instantiated), !.modified = FALSE],
               block, 0)

\* unwind_tip that moves the wrong way: the unconfirmed coins of the block's
\* transactions into confirmed
UnwindTipIntoConfirmed(st, block_hash) ==
    LET lost_coins ==
            {point \in DOMAIN st.unconfirmed :
                \E t \in DOMAIN st.proofs :
                    /\ st.proofs[t].block_hash = block_hash
                    /\ point.txid = st.proofs[t].txid}
    IN  [st EXCEPT
            !.unconfirmed = [p \in (DOMAIN @) \ lost_coins |-> @[p]],
            !.confirmed = [p \in (DOMAIN @) \cup lost_coins |->
                              IF p \in lost_coins THEN st.unconfirmed[p] ELSE @[p]]]

\* unwind_tip without self.proofs.remove
UnwindTipKeepsProofs(st, block_hash) ==
    LET lost_coins ==
            {point \in DOMAIN st.confirmed :
                \E t \in DOMAIN st.proofs :
                    /\ st.proofs[t].block_hash = block_hash
                    /\ point.txid = st.proofs[t].txid}
    IN  [st EXCEPT
            !.confirmed = [p \in (DOMAIN @) \ lost_coins |-> @[p]],
            !.unconfirmed = [p \in (DOMAIN @) \cup lost_coins |->
                                IF p \in lost_coins THEN st.confirmed[p] ELSE @[p]]]

\* unwind_tip without self.unconfirmed.insert
UnwindTipDropsCoins(st, block_hash) ==
    LET lost_coins ==
            {point \in DOMAIN st.confirmed :
                \E t \in DOMAIN st.proofs :
                    /\ st.proofs[t].block_hash = block_hash
                    /\ point.txid = st.proofs[t].txid}
    IN  [st EXCEPT
            !.proofs = [t \in (DOMAIN @) \ {point.txid : point \in lost_coins} |-> @[t]],
            !.confirmed = [p \in (DOMAIN @) \ lost_coins |-> @[p]]]

\* unwind_tip.  The loop over lost_coins touches each point once, so its order
\* does not show in the result.
UnwindTip(st, block_hash) ==
    LET lost_coins ==
            {point \in DOMAIN st.confirmed :
                \E t \in DOMAIN st.proofs :
                    /\ st.proofs[t].block_hash = block_hash
                    /\ point.txid = st.proofs[t].txid}
    IN  [st EXCEPT
            !.proofs = [t \in (DOMAIN @) \ {point.txid : point \in lost_coins} |-> @[t]],
            !.confirmed = [p \in (DOMAIN @) \ lost_coins |-> @[p]],
            !.unconfirmed = [p \in (DOMAIN @) \cup lost_coins |->
                                IF p \in lost_coins THEN st.confirmed[p] ELSE @[p]]]

\* the sum of the output values of a map of coins
RECURSIVE Balance(_)
Balance(coins) ==
    IF DOMAIN coins = {} THEN 0
    ELSE LET p == CHOOSE q \in DOMAIN coins : TRUE
         IN  coins[p].output.value + Balance(Remove(coins, p))

\* confirmed_balance, unconfirmed_balance
ConfirmedBalance == Balance(confirmed)
UnconfirmedBalance == Balance(unconfirmed)

----------------------------------------------------------------------------
(* The calls.  Every call runs to completion (the ledger has one writer),  *)
(* so each is one step.                                                    *)

MaxOps == 4

NotCalled == [status |-> "NotCalled"]

\* one entry of hist: the call, what it returned, and the ledger and account after it
Entry(op, arg, ret, st) ==
    [op |-> op, arg |-> arg, ret |-> ret,
     confirmed |-> st.confirmed, unconfirmed |-> st.unconfirmed, proofs |-> st.proofs,
     instantiated |-> st.instantiated]

Commit(op, arg, ret, st) ==
    /\ rec => Len(hist) <= MaxOps
    /\ confirmed' = st.confirmed
    /\ unconfirmed' = st.unconfirmed
    /\ proofs' = st.proofs
    /\ instantiated' = st.instantiated
    /\ hist' = IF rec THEN Append(hist, Entry(op, arg, ret, st))
                      ELSE <<hist[Len(hist)], Entry(op, arg, ret, st)>>
    /\ UNCHANGED <<rec, selvars>>

CallProcess(hash) ==
    LET st == Process(Self, Block(hash))
    IN  Commit("process", hash, st.modified, st)

CallProcessUnconfirmedTransaction(txid) ==
    LET st == ProcessUnconfirmedTransaction(Self, Tx(txid))
    IN  Commit("process_unconfirmed_transaction", txid, st.modified, st)

CallRemoveConfirmed(point) ==
    LET st == RemoveConfirmed(Self, point)
    IN  Commit("remove_confirmed", point, st.ret, st)

CallUnwindTip(hash) ==
    Commit("unwind_tip", hash, FALSE, UnwindTip(Self, hash))

\* Coins::new(), and a master account that has looked ahead from no key seen
New ==
    [confirmed |-> EmptyMap, unconfirmed |-> EmptyMap, proofs |-> EmptyMap,
     instantiated |-> LookAhead]

InitCoins ==
    /\ confirmed = New.confirmed
    /\ unconfirmed = New.unconfirmed
    /\ proofs = New.proofs
    /\ instantiated = New.instantiated
    /\ hist = <<Entry("new", "", FALSE, New)>>

InitLedger ==
    /\ InitCoins
    /\ minimum = 0
    /\ height = 0
    /\ block_height = EmptyMap
    /\ selected = NotCalled

Init == InitLedger /\ rec = FALSE

InitH == InitLedger /\ rec = TRUE

Next ==
    \/ \E hash \in BlockHashes : CallProcess(hash)
    \/ \E txid \in Txids : CallProcessUnconfirmedTransaction(txid)
    \/ \E point \in Points : CallRemoveConfirmed(point)
    \/ \E hash \in BlockHashes : CallUnwindTip(hash)

\* every sequence of calls, remembering the last call and the ledger before it
Spec == Init /\ [][Next]_vars

\* every sequence of at most MaxOps calls, remembering all of them
SpecH == InitH /\ [][Next]_vars

----------------------------------------------------------------------------
(* Coin selection.  get_confirmed_coins reads the ledger and changes       *)
(* nothing; its result is one of the outcomes the iteration order of the   *)
(* HashMap and the shuffle allow.  An element of have and inputs is the    *)
(* tuple <<point, coin, height>>.                                          *)

Min(S) == CHOOSE x \in S : \A y \in S : x <= y

\* the orders a Vec holding exactly the elements of S can be in
Perms(S) ==
    {v \in [1 .. Cardinality(S) -> S] : \A i, j \in DOMAIN v : i # j => v[i] # v[j]}

RemoveAt(v, index) == [i \in 1 .. Len(v) - 1 |-> IF i < index THEN v[i] ELSE v[i + 1]]

\* the expect() calls made for every entry of proofs, not for every confirmed coin
ResolvesEveryProof(conf, prf, lookup) ==
    /\ \A p \in DOMAIN conf : p.txid \in DOMAIN prf
    /\ \A t \in DOMAIN prf : lookup[prf[t].block_hash] # None

\* the two expect() calls: the proof of the coin's transaction, the height of its block
Resolves(conf, prf, lookup) ==
    \A p \in DOMAIN conf :
        /\ p.txid \in DOMAIN prf
        /\ lookup[prf[p.txid].block_hash] # None

\* the filter with <= in place of <
PassesBelow(c, h, hgt) ==
    IF c.derivation.csv # None
    THEN ~ (h + c.derivation.csv[1] <= hgt)
    ELSE TRUE

\* the closure of filter_map returns None (FALSE) or Some (TRUE)
Passes(c, h, hgt) ==
    IF c.derivation.csv # None
    THEN ~ (h + c.derivation.csv[1] < hgt)
    ELSE TRUE

\* filter_map returning the current height in place of the confirming height
CollectedAtHeight(conf, prf, lookup, hgt) ==
    {<<p, conf[p], hgt>> :
        p \in {q \in DOMAIN conf :
                 Passes(conf[q], lookup[prf[q.txid].block_hash][1], hgt)}}

\* what filter_map collects: the coins that pass, each with its confirming height
Collected(conf, prf, lookup, hgt) ==
    {<<p, conf[p], lookup[prf[p.txid].block_hash][1]>> :
        p \in {q \in DOMAIN conf :
                 Passes(conf[q], lookup[prf[q.txid].block_hash][1], hgt)}}

\* have after sort_by: ascending by value, coins of equal value in any order
Sorted(S) ==
    {v \in Perms(S) :
        \A i, j \in DOMAIN v : i < j => v[i][2].output.value <= v[j][2].output.value}

\* the loop that fills inputs, from element n of have on; stops once sum >= min
RECURSIVE Accumulate(_, _, _, _, _)
Accumulate(have, n, sum, inputs, min) ==
    IF n >= Len(have) THEN [sum |-> sum, inputs |-> inputs]
    ELSE LET s == sum + have[n + 1][2].output.value
             pushed == Append(inputs, have[n + 1])
         IN  IF s >= min THEN [sum |-> s, inputs |-> pushed]
             ELSE Accumulate(have, n + 1, s, pushed, min)

\* the while loop without change -= removed
RECURSIVE DropChangeKeepsChange(_, _)
DropChangeKeepsChange(inputs, change) ==
    LET found == {i \in 1 .. Len(inputs) : inputs[i][2].output.value <= change}
    IN  IF found = {} THEN inputs
        ELSE DropChangeKeepsChange(RemoveAt(inputs, Min(found)), change)

\* the while loop: drop the first input whose value is at most change
RECURSIVE DropChange(_, _)
DropChange(inputs, change) ==
    LET found == {i \in 1 .. Len(inputs) : inputs[i][2].output.value <= change}
    IN  IF found = {} THEN inputs
        ELSE LET index == Min(found)
                 removed == inputs[index][2].output.value
             IN  DropChange(RemoveAt(inputs, index), change - removed)

\* inputs.shuffle(): any order
Shuffle(inputs) ==
    {[i \in 1 .. Len(inputs) |-> inputs[order[i]]] : order \in Perms(1 .. Len(inputs))}

\* inputs before the shuffle, for one order of have
Chosen(have, min) ==
    LET acc == Accumulate(have, 0, 0, <<>>, min)
    IN  IF acc.sum > min THEN DropChange(acc.inputs, acc.sum - min) ELSE acc.inputs

\* get_confirmed_coins: the outcomes it can have
GetConfirmedCoins(conf, prf, min, hgt, lookup) ==
    IF ~ Resolves(conf, prf, lookup)
    THEN {[status |-> "Panicked"]}
    ELSE {[status |-> "Returned", inputs |-> inputs] :
            inputs \in UNION {Shuffle(Chosen(have, min)) :
                                have \in Sorted(Collected(conf, prf, lookup, hgt))}}

CallGetConfirmedCoins ==
    /\ selected = NotCalled
    /\ selected' \in GetConfirmedCoins(confirmed, proofs, minimum, height, block_height)
    /\ UNCHANGED <<confirmed, unconfirmed, proofs, instantiated, hist, rec,
                   minimum, height, block_height>>

(* The ledgers coin selection is tried on: up to three confirmed outputs of *)
(* two transactions SA and SB, each proved in one of two blocks, as process *)
(* or add_confirmed leave them (I2 and I3 hold).                            *)

MaxValue == 2
MaxMinimum == 5

SelPoints == {OutPoint("SA", 0), OutPoint("SA", 1), OutPoint("SB", 0)}

SelCoins ==
    {Coin(TxOut(v, KeyScript(0)), KeyDerivation(0, csv)) :
        v \in 0 .. MaxValue, csv \in {None, Some(10)}}

\* the caller knows B1 at height 100 and B2 at height 101, or does not know B2
Lookups ==
    {[b \in {B1, B2} |-> IF b = B1 THEN Some(100) ELSE h] : h \in {Some(101), None}}

Heights == 109 .. 112

SelInit ==
    /\ confirmed \in UNION {[S -> SelCoins] : S \in SUBSET SelPoints}
    /\ proofs \in {[t \in DOMAIN in |-> [block_hash |-> in[t], txid |-> t]] :
                      in \in [{p.txid : p \in DOMAIN confirmed} -> {B1, B2}]}
    /\ unconfirmed = EmptyMap
    /\ instantiated = LookAhead
    /\ hist = <<>>
    /\ rec = FALSE
    /\ minimum \in 0 .. MaxMinimum
    /\ height \in Heights
    /\ block_height \in Lookups
    /\ selected = NotCalled

SelNext == CallGetConfirmedCoins

\* one call of get_confirmed_coins on each such ledger
SelSpec == SelInit /\ [][SelNext]_vars

(* Coin selection on the ledgers the four mutating calls build from the    *)
(* empty one, and on ledgers restored by add_confirmed, which files the    *)
(* proof under the txid of the proof's transaction, whatever the txid of   *)
(* the point: a confirmed coin can be left without a proof, and a proof    *)
(* without a coin.                                                         *)

RestoredCoins ==
    {Coin(TxOut(1, KeyScript(0)), KeyDerivation(0, None)),
     Coin(TxOut(2, KeyScript(0)), KeyDerivation(0, None)),
     Coin(TxOut(2, KeyScript(0)), KeyDerivation(0, Some(10)))}

RestoredInit ==
    /\ confirmed \in UNION {[S -> RestoredCoins] : S \in SUBSET SelPoints}
    /\ proofs \in UNION {{[t \in S |-> [block_hash |-> in[t], txid |-> t]] :
                              in \in [S -> {B1, B2}]} : S \in SUBSET {"SA", "SB"}}
    /\ unconfirmed = EmptyMap
    /\ instantiated = LookAhead
    /\ hist = <<>>
    /\ rec = FALSE
    /\ minimum \in {1, 3}
    /\ height \in {110, 111}
    /\ block_height \in Lookups
    /\ selected = NotCalled

\* the caller knows every block but B3
BuiltInit ==
    /\ InitCoins
    /\ rec = FALSE
    /\ minimum = 1
    /\ height = 110
    /\ block_height = [b \in BlockHashes |-> IF b = B3 THEN None ELSE Some(100)]
    /\ selected = NotCalled

AbortInit == RestoredInit \/ BuiltInit

AbortNext ==
    \/ selected = NotCalled /\ hist # <<>> /\ Next
    \/ CallGetConfirmedCoins

\* the mutating calls from the empty ledger, and one call of get_confirmed_coins
\* at any point, or on a restored ledger
AbortSpec == AbortInit /\ [][AbortNext]_vars

----------------------------------------------------------------------------
(* Properties of the ledger *)

\* the last call with the ledger it left, and the ledger it found
Last == hist[Len(hist)]
Prev == hist[Len(hist) - 1]

Called(op) == Len(hist) >= 2 /\ Last.op = op

TxidsOf(coins) == {p.txid : p \in DOMAIN coins}

\* C1 (invariant I1): no output reference is a key of both confirmed and
\* unconfirmed, whatever calls were made.
I1_Disjoint == (DOMAIN confirmed) \cap (DOMAIN unconfirmed) = {}

\* C2 (invariant I2): every output reference in confirmed has its transaction
\* id as a key of proofs, and that proof is the proof of this transaction.
I2_ConfirmedHaveProofs ==
    \A p \in DOMAIN confirmed :
        p.txid \in DOMAIN proofs /\ proofs[p.txid].txid = p.txid

\* a coin was removed from confirmed while another output of its transaction
\* stayed there
I2_Witness ==
    /\ Called("remove_confirmed")
    /\ Last.ret
    /\ Last.arg.txid \in TxidsOf(confirmed)

\* C3 (invariant I3): a transaction id is a key of proofs exactly if some
\* output of that transaction is in confirmed; so a call drops a proof exactly
\* when it removes the last confirmed output of the transaction.
I3_NoOrphanedProofs ==
    /\ DOMAIN proofs = TxidsOf(confirmed)
    /\ Len(hist) >= 2 =>
          \A t \in DOMAIN Prev.proofs :
              t \notin DOMAIN proofs <=>
                  (t \in TxidsOf(Prev.confirmed) /\ t \notin TxidsOf(confirmed))

\* a call removed the last confirmed output of a transaction, and its proof
I3_Witness ==
    /\ Len(hist) >= 2
    /\ \E t \in DOMAIN Prev.proofs : t \notin DOMAIN proofs
    /\ confirmed # EmptyMap

----------------------------------------------------------------------------
(* Scenarios: sequences of calls from the empty ledger, under SpecH, where *)
(* hist[1] is the empty ledger and hist[i + 1] the i-th call.              *)

Did(i, op, arg) == Len(hist) >= i + 1 /\ hist[i + 1].op = op /\ hist[i + 1].arg = arg

AfterB1 == Len(hist) = 2 /\ Did(1, "process", B1)

AfterB1B2 == Len(hist) = 3 /\ Did(1, "process", B1) /\ Did(2, "process", B2)

AfterB1B2Unwind ==
    /\ Len(hist) = 4
    /\ Did(1, "process", B1) /\ Did(2, "process", B2) /\ Did(3, "unwind_tip", B2)

\* C6: from the empty ledger, process(B1) leaves one confirmed coin, one proof
\* and a confirmed balance of 5000; process(B2) then removes that coin and its
\* proof and confirms the 3000 coin with its proof, confirmed balance 3000;
\* unwind_tip(B2) then leaves confirmed balance 0 and the 3000 coin unconfirmed,
\* unconfirmed balance 3000.
Scenario ==
    /\ AfterB1 =>
          /\ Cardinality(DOMAIN confirmed) = 1
          /\ Cardinality(DOMAIN proofs) = 1
          /\ ConfirmedBalance = 5000
    /\ AfterB1B2 =>
          /\ OutPoint(T1, 0) \notin DOMAIN confirmed
          /\ T1 \notin DOMAIN proofs
          /\ DOMAIN confirmed = {OutPoint(T2, 0)}
          /\ DOMAIN proofs = {T2}
          /\ proofs[T2].block_hash = B2
          /\ ConfirmedBalance = 3000
    /\ AfterB1B2Unwind =>
          /\ ConfirmedBalance = 0
          /\ UnconfirmedBalance = 3000
          /\ OutPoint(T2, 0) \in DOMAIN unconfirmed
          /\ unconfirmed[OutPoint(T2, 0)].output.value = 3000

\* the three calls of the scenario were made, and the 3000 coin is unconfirmed
Scenario_Witness == AfterB1B2Unwind /\ OutPoint(T2, 0) \in DOMAIN unconfirmed

TxidsIn(block) == {block.txdata[i].txid : i \in 1 .. Len(block.txdata)}

\* the outputs of transaction txid
OutPointsOf(txid) == {OutPoint(txid, vout) : vout \in 0 .. Len(Tx(txid).output) - 1}

\* C7: when the last three calls were process_unconfirmed_transaction(T),
\* process(B) with T in B and unwind_tip(B), every output C of T that the first
\* recorded as unconfirmed and the second moved to confirmed is unconfirmed
\* again with the same coin, is not confirmed, T has no proof, and C is in the
\* maps it was in right after the first call.
RoundTrip ==
    LET a == hist[Len(hist) - 2]
        b == hist[Len(hist) - 1]
        c == hist[Len(hist)]
    IN  (/\ Len(hist) >= 4
         /\ a.op = "process_unconfirmed_transaction"
         /\ b.op = "process"
         /\ c.op = "unwind_tip"
         /\ c.arg = b.arg
         /\ a.arg \in TxidsIn(Block(b.arg)))
        => \A C \in OutPointsOf(a.arg) :
              (/\ C \in DOMAIN a.unconfirmed
               /\ C \in DOMAIN b.confirmed
               /\ C \notin DOMAIN b.unconfirmed)
              => /\ C \in DOMAIN c.unconfirmed
                 /\ c.unconfirmed[C] = a.unconfirmed[C]
                 /\ C \notin DOMAIN c.confirmed
                 /\ a.arg \notin DOMAIN c.proofs
                 /\ (C \in DOMAIN c.confirmed) = (C \in DOMAIN a.confirmed)

----------------------------------------------------------------------------
(* Properties of single calls, on the ledger before (Prev) and after. *)

\* the confirmed coins whose transaction's proof is bound to block hash
BoundTo(ledger, hash) ==
    {p \in DOMAIN ledger.confirmed :
        p.txid \in DOMAIN ledger.proofs /\ ledger.proofs[p.txid].block_hash = hash}

\* C8: unwind_tip(h) moves every confirmed coin whose proof is bound to h into
\* unconfirmed with the same coin, leaves no proof bound to h, leaves the
\* confirmed coins and the proofs bound to other blocks as they were, and
\* leaves the set of owned output references as it was.
UnwindMoves ==
    Called("unwind_tip") =>
        LET h == Last.arg
            lost == BoundTo(Prev, h)
        IN  /\ \A p \in lost :
                  /\ p \in DOMAIN unconfirmed
                  /\ unconfirmed[p] = Prev.confirmed[p]
                  /\ p \notin DOMAIN confirmed
            /\ \A t \in DOMAIN proofs : proofs[t].block_hash # h
            /\ \A p \in (DOMAIN Prev.confirmed) \ lost :
                  p \in DOMAIN confirmed /\ confirmed[p] = Prev.confirmed[p]
            /\ DOMAIN confirmed \subseteq DOMAIN Prev.confirmed
            /\ \A t \in DOMAIN Prev.proofs :
                  Prev.proofs[t].block_hash # h =>
                      t \in DOMAIN proofs /\ proofs[t] = Prev.proofs[t]
            /\ (DOMAIN confirmed) \cup (DOMAIN unconfirmed)
                   = (DOMAIN Prev.confirmed) \cup (DOMAIN Prev.unconfirmed)

\* unwind_tip moved a coin and left a coin confirmed by another block in place
UnwindMoves_Witness ==
    /\ Called("unwind_tip")
    /\ BoundTo(Prev, Last.arg) # {}
    /\ BoundTo(Prev, Last.arg) \subseteq DOMAIN unconfirmed
    /\ confirmed # EmptyMap

\* C9: remove_confirmed(p) returns true exactly if p was in confirmed; then p
\* is removed from confirmed and the proof of p.txid is removed exactly if no
\* other confirmed output has that transaction id; when it returns false the
\* three maps are unchanged; unconfirmed is unchanged in every case.
RemoveConfirmedContract ==
    Called("remove_confirmed") =>
        LET p == Last.arg
            others == {q \in (DOMAIN Prev.confirmed) \ {p} : q.txid = p.txid}
        IN  /\ Last.ret = (p \in DOMAIN Prev.confirmed)
            /\ Last.ret =>
                  /\ confirmed = Remove(Prev.confirmed, p)
                  /\ proofs = IF others = {} THEN Remove(Prev.proofs, p.txid)
                                             ELSE Prev.proofs
            /\ ~ Last.ret => confirmed = Prev.confirmed /\ proofs = Prev.proofs
            /\ unconfirmed = Prev.unconfirmed

\* remove_confirmed returned true and kept the proof for another output
RemoveConfirmedContract_Witness ==
    /\ Called("remove_confirmed")
    /\ Last.ret
    /\ Last.arg.txid \in DOMAIN proofs
    /\ Last.arg \notin DOMAIN confirmed

\* The outputs of tx a scan takes for owned when the account has instantiated
\* n keys: an output is owned if its script is watched when the scan comes to
\* it, and each owned output extends the watched scripts.
RECURSIVE Scan(_, _, _, _)
Scan(n, tx, vout, owned) ==
    IF vout >= Len(tx.output) THEN [instantiated |-> n, owned |-> owned]
    ELSE LET script == tx.output[vout + 1].script_pubkey
             scripts == GetScripts(n)
         IN  IF script \in DOMAIN scripts
             THEN Scan(DoLookAhead(n, scripts[script].kix).instantiated, tx, vout + 1,
                       owned \cup {vout})
             ELSE Scan(n, tx, vout + 1, owned)

\* the same for transaction txnr of a block whose scan starts with n keys
RECURSIVE ScanBlock(_, _, _)
ScanBlock(n, block, txnr) ==
    IF txnr = 0 THEN Scan(n, block.txdata[1], 0, {})
    ELSE Scan(ScanBlock(n, block, txnr - 1).instantiated, block.txdata[txnr + 1], 0, {})

\* an input of a transaction after txnr, other than the first, spends point
SpentLater(block, txnr, point) ==
    \E m \in txnr + 1 .. Len(block.txdata) - 1 :
        /\ m > 0
        /\ \E i \in 1 .. Len(block.txdata[m + 1].input) :
               block.txdata[m + 1].input[i].previous_output = point

\* C10 as stated: after process(block), a transaction of the block with two or
\* more owned outputs has a proofs entry, bound to this block when it had none
\* before, and each of its owned outputs has a confirmed entry.
OneProofAsStated ==
    Called("process") =>
        LET block == Block(Last.arg)
        IN  \A txnr \in 0 .. Len(block.txdata) - 1 :
                LET txid == block.txdata[txnr + 1].txid
                    owned == ScanBlock(Prev.instantiated, block, txnr).owned
                IN  Cardinality(owned) >= 2 =>
                        /\ txid \in DOMAIN proofs
                        /\ txid \notin DOMAIN Prev.proofs =>
                               proofs[txid].block_hash = block.hash
                        /\ \A vout \in owned : OutPoint(txid, vout) \in DOMAIN confirmed

\* C10 as amended: each owned output of such a transaction that no later
\* transaction of the block spends has a confirmed entry; if there is one, the
\* transaction has a proofs entry, bound to this block when it had none before;
\* if a later transaction of the block spends them all, it has none.
OneProof ==
    Called("process") =>
        LET block == Block(Last.arg)
        IN  \A txnr \in 0 .. Len(block.txdata) - 1 :
                LET txid == block.txdata[txnr + 1].txid
                    owned == ScanBlock(Prev.instantiated, block, txnr).owned
                    left == {vout \in owned :
                                ~ SpentLater(block, txnr, OutPoint(txid, vout))}
                IN  Cardinality(owned) >= 2 =>
                        /\ \A vout \in left : OutPoint(txid, vout) \in DOMAIN confirmed
                        /\ \A vout \in owned \ left :
                               OutPoint(txid, vout) \notin DOMAIN confirmed
                        /\ left # {} =>
                               /\ txid \in DOMAIN proofs
                               /\ proofs[txid].txid = txid
                               /\ txid \notin DOMAIN Prev.proofs =>
                                      proofs[txid].block_hash = block.hash
                        /\ left = {} => txid \notin DOMAIN proofs

\* process(B3) confirmed both owned outputs of T3, the second paying a key only
\* the lookahead made watched, under one proof bound to B3
OneProof_Witness ==
    /\ Called("process")
    /\ Last.arg = B3
    /\ Prev.instantiated = 1
    /\ T3 \notin DOMAIN Prev.proofs
    /\ {OutPoint(T3, 0), OutPoint(T3, 2)} \subseteq DOMAIN confirmed
    /\ proofs[T3].block_hash = B3

----------------------------------------------------------------------------
(* Properties of coin selection *)

Returned == selected.status = "Returned"

\* the output references of a Vec of <<point, coin, height>>
PointsOf(inputs) == {inputs[i][1] : i \in 1 .. Len(inputs)}

RECURSIVE SumOf(_)
SumOf(inputs) ==
    IF inputs = <<>> THEN 0 ELSE Head(inputs)[2].output.value + SumOf(Tail(inputs))

\* the confirming height of a confirmed coin whose proof and block resolve
ConfirmingHeight(p) == block_height[proofs[p.txid].block_hash][1]

\* the confirmed coins that pass the timelock filter, and their total value
EligiblePoints ==
    {p \in DOMAIN confirmed : Passes(confirmed[p], ConfirmingHeight(p), height)}

EligibleTotal == Balance([p \in EligiblePoints |-> confirmed[p]])

\* C4: when minimum is at most the total value of the eligible confirmed coins,
\* the returned coins sum to at least minimum; when it is more, exactly the
\* eligible coins are returned, each once, and their sum is below minimum.
SelectionMeetsMinimum ==
    Returned =>
        /\ minimum <= EligibleTotal => SumOf(selected.inputs) >= minimum
        /\ minimum > EligibleTotal =>
              /\ PointsOf(selected.inputs) = EligiblePoints
              /\ Len(selected.inputs) = Cardinality(EligiblePoints)
              /\ SumOf(selected.inputs) < minimum

\* the change-minimization pass dropped a coin (an eligible coin of smaller
\* value than a returned one is not returned) and the rest covers minimum > 0
SelectionMeetsMinimum_Witness ==
    /\ Returned
    /\ minimum > 0
    /\ SumOf(selected.inputs) >= minimum
    /\ \E p \in EligiblePoints \ PointsOf(selected.inputs) :
           \E q \in PointsOf(selected.inputs) :
               confirmed[p].output.value < confirmed[q].output.value

\* the confirmed coins with a CSV requirement
CsvPoints == {p \in DOMAIN confirmed : confirmed[p].derivation.csv # None}

Csv(p) == confirmed[p].derivation.csv[1]

\* a coin that is eligible is returned whenever the selection falls short
UsedWhenNeeded(p) ==
    SumOf(selected.inputs) < minimum => p \in PointsOf(selected.inputs)

\* C5 as stated: a coin with CSV c confirmed at height h is not returned at any
\* current height >= h + c and is eligible at every current height < h + c.
TimelockBoundaryAsStated ==
    Returned =>
        \A p \in CsvPoints :
            /\ height >= ConfirmingHeight(p) + Csv(p) => p \notin PointsOf(selected.inputs)
            /\ height < ConfirmingHeight(p) + Csv(p) => UsedWhenNeeded(p)

\* C5 as amended: such a coin is not returned at any current height > h + c and
\* is eligible at every current height <= h + c (CSV 10 at height 100: still
\* eligible at 110, excluded from 111 on).
TimelockBoundary ==
    Returned =>
        \A p \in CsvPoints :
            /\ height > ConfirmingHeight(p) + Csv(p) => p \notin PointsOf(selected.inputs)
            /\ height <= ConfirmingHeight(p) + Csv(p) => UsedWhenNeeded(p)

\* a coin with CSV 10 confirmed at height 100 is returned at current height 110
TimelockBoundary_Witness ==
    /\ Returned
    /\ height = 110
    /\ minimum > 0
    /\ \E p \in CsvPoints \cap PointsOf(selected.inputs) :
           Csv(p) = 10 /\ ConfirmingHeight(p) = 100

\* the confirmed coins the filter is to keep: no CSV requirement, or confirming
\* height + csv >= current height
Kept ==
    {p \in DOMAIN confirmed :
        p \notin CsvPoints \/ ConfirmingHeight(p) + Csv(p) >= height}

\* C14: the filter of get_confirmed_coins keeps a confirmed coin exactly when
\* it has no CSV requirement or confirming height + csv >= current height: a
\* coin with confirming height + csv < current height is never returned, and a
\* selection that falls short of minimum returns exactly the kept coins.  Every
\* returned tuple carries the confirming height of its coin and a coin equal
\* to the entry of confirmed under its output reference.
EligibilityFilter ==
    Returned =>
        /\ PointsOf(selected.inputs) \subseteq Kept
        /\ SumOf(selected.inputs) < minimum => PointsOf(selected.inputs) = Kept
        /\ \A i \in 1 .. Len(selected.inputs) :
              LET point == selected.inputs[i][1]
              IN  /\ point \in DOMAIN confirmed
                  /\ selected.inputs[i][2] = confirmed[point]
                  /\ selected.inputs[i][3] = ConfirmingHeight(point)

\* at current height 111 a coin with CSV 10 confirmed at height 101 is returned
\* with that height, one confirmed at height 100 is not, and a coin without CSV
\* requirement is
EligibilityFilter_Witness ==
    /\ Returned
    /\ height = 111
    /\ SumOf(selected.inputs) < minimum
    /\ \E i \in 1 .. Len(selected.inputs) :
          /\ selected.inputs[i][1] \in CsvPoints
          /\ selected.inputs[i][3] = 101
    /\ \E p \in CsvPoints \ PointsOf(selected.inputs) : ConfirmingHeight(p) = 100
    /\ \E p \in PointsOf(selected.inputs) : p \notin CsvPoints

\* C15: whenever the returned coins sum to at least minimum, no returned coin
\* has a value at most the overshoot (the sum minus minimum), so none of them
\* could be dropped with the rest still covering minimum; coins of value zero
\* and an accumulation that hits minimum exactly are included.
ChangeMinimal ==
    Returned /\ SumOf(selected.inputs) >= minimum =>
        \A i \in 1 .. Len(selected.inputs) :
            selected.inputs[i][2].output.value > SumOf(selected.inputs) - minimum

----------------------------------------------------------------------------
(* What a call reports *)

\* the last call left a map of the ledger other than it found it
LedgerChanged ==
    \/ confirmed # Prev.confirmed
    \/ unconfirmed # Prev.unconfirmed
    \/ proofs # Prev.proofs

\* C11: process_unconfirmed_transaction returns true exactly when the call
\* changed confirmed, unconfirmed or proofs; a call that leaves all three as
\* they were (a transaction scanned again, its owned outputs already recorded
\* as unconfirmed) returns false.
ReturnTellsChange ==
    Called("process_unconfirmed_transaction") => (Last.ret <=> LedgerChanged)

----------------------------------------------------------------------------
(* When coin selection aborts *)

\* a confirmed coin whose transaction has no entry in proofs
MissingProof == {p \in DOMAIN confirmed : p.txid \notin DOMAIN proofs}

\* a confirmed coin whose proof names a block the lookup does not know
UnknownBlock ==
    {p \in DOMAIN confirmed \ MissingProof :
        block_height[proofs[p.txid].block_hash] = None}

\* C12: get_confirmed_coins aborts exactly when some confirmed coin has no
\* entry in proofs for its txid or the lookup returns absence for the block of
\* that proof; this is so for every confirmed coin, with or without a CSV
\* requirement, selected or not.  In every ledger the four mutating calls
\* build from the empty one no confirmed coin is without a proof, so there the
\* abort for a missing proof cannot happen.
AbortsExactly ==
    /\ selected # NotCalled =>
          (selected.status = "Panicked" <=> MissingProof \cup UnknownBlock # {})
    /\ hist # <<>> => MissingProof = {}

\* get_confirmed_coins aborted over a coin without a CSV requirement that has
\* no proof, though a smaller coin alone reaches the minimum
AbortsExactly_Witness ==
    /\ selected.status = "Panicked"
    /\ \E p \in MissingProof, q \in DOMAIN confirmed :
          /\ MissingProof = {p} /\ UnknownBlock = {}
          /\ confirmed[p].derivation.csv = None
          /\ confirmed[q].output.value < confirmed[p].output.value
          /\ confirmed[q].output.value >= minimum

----------------------------------------------------------------------------
(* Re-confirmation after a reorganisation (SpecH) *)

\* the index in block.txdata of the transaction txid, counted from 0
TxnrOf(block, txid) ==
    CHOOSE txnr \in 0 .. Len(block.txdata) - 1 : block.txdata[txnr + 1].txid = txid

\* the ledger process(b) left, when the last three calls were process(b),
\* unwind_tip(b), process(c)
Processed == hist[Len(hist) - 2]

\* the last three calls were process(b), unwind_tip(b), process(c), c # b
Reorged ==
    /\ Len(hist) >= 4
    /\ Last.op = "process" /\ Prev.op = "unwind_tip" /\ Processed.op = "process"
    /\ Prev.arg = Processed.arg
    /\ Last.arg # Processed.arg

\* the coins process(b) confirmed whose transaction is in block c as well
Reconfirmable(b, c) ==
    {p \in DOMAIN Processed.confirmed :
        p.txid \in TxidsIn(Block(b)) \cap TxidsIn(Block(c))}

Reconfirmed(p, c) ==
    /\ p \in DOMAIN confirmed
    /\ p \notin DOMAIN unconfirmed
    /\ p.txid \in DOMAIN proofs
    /\ proofs[p.txid].block_hash = c

\* C13 as stated: after process(B) that confirms coin C of transaction T,
\* unwind_tip(B.hash) and process(B') for another block B' that contains T, C
\* is in confirmed, is not in unconfirmed, and the proof of T is bound to B'.
ReconfirmsAsStated ==
    Reorged =>
        \A p \in Reconfirmable(Processed.arg, Last.arg) : Reconfirmed(p, Last.arg)

\* C13: after process(B) that confirms coin C of transaction T and leaves the
\* proof of T bound to B, unwind_tip(B.hash) and process(B') for another block
\* B' that contains T and no later transaction spending C, C is in confirmed,
\* is not in unconfirmed, and the proof of T is bound to B'.
Reconfirms ==
    Reorged =>
        \A p \in Reconfirmable(Processed.arg, Last.arg) :
            /\ Processed.proofs[p.txid].block_hash = Processed.arg
            /\ ~ SpentLater(Block(Last.arg), TxnrOf(Block(Last.arg), p.txid), p)
            => Reconfirmed(p, Last.arg)

\* a coin confirmed in B3 and, after B3 was unwound, confirmed again in B4
Reconfirms_Witness ==
    /\ Reorged
    /\ Processed.arg = B3 /\ Last.arg = B4
    /\ \E p \in Reconfirmable(B3, B4) :
          /\ Processed.proofs[p.txid].block_hash = B3
          /\ p \in DOMAIN hist[Len(hist) - 1].unconfirmed
          /\ Reconfirmed(p, B4)

----------------------------------------------------------------------------
(* Lookahead within one scan *)

\* the last call made no ledger entry for point
NoNewEntry(point) ==
    /\ point \in DOMAIN unconfirmed <=> point \in DOMAIN Prev.unconfirmed
    /\ point \in DOMAIN confirmed => point \in DOMAIN Prev.confirmed

\* C16: within one scan (one process_unconfirmed_transaction, or one process
\* across all transactions of the block) an output is recorded when its script
\* is in the snapshot taken at entry or was returned by a lookahead extension
\* that an earlier output of the same scan triggered; an output whose script
\* is in neither gets no ledger entry.
IncrementalLookahead ==
    /\ Called("process_unconfirmed_transaction") =>
          LET tx == Tx(Last.arg)
              owned == Scan(Prev.instantiated, tx, 0, {}).owned
          IN  \A vout \in 0 .. Len(tx.output) - 1 :
                  LET point == OutPoint(tx.txid, vout)
                  IN  IF vout \in owned
                      THEN /\ point \in DOMAIN unconfirmed
                           /\ unconfirmed[point].output = tx.output[vout + 1]
                      ELSE NoNewEntry(point)
    /\ Called("process") =>
          LET block == Block(Last.arg)
          IN  \A txnr \in 0 .. Len(block.txdata) - 1 :
                  LET tx == block.txdata[txnr + 1]
                      owned == ScanBlock(Prev.instantiated, block, txnr).owned
                  IN  \A vout \in 0 .. Len(tx.output) - 1 :
                          LET point == OutPoint(tx.txid, vout)
                          IN  IF vout \in owned
                              THEN \/ SpentLater(block, txnr, point)
                                   \/ /\ point \in DOMAIN confirmed
                                      /\ confirmed[point].output = tx.output[vout + 1]
                              ELSE NoNewEntry(point)

\* process_unconfirmed_transaction(T3) with only key 0 watched at entry
\* recorded output 0 (key 0) and output 2 (key 1, watched only through the
\* lookahead output 0 triggered) and not the foreign output 1
IncrementalLookahead_Witness ==
    /\ Called("process_unconfirmed_transaction")
    /\ Last.arg = T3
    /\ Tx(T3).output[3].script_pubkey \notin DOMAIN GetScripts(Prev.instantiated)
    /\ OutPoint(T3, 2) \notin DOMAIN Prev.unconfirmed
    /\ {OutPoint(T3, 0), OutPoint(T3, 2)} \subseteq DOMAIN unconfirmed
    /\ OutPoint(T3, 1) \notin DOMAIN unconfirmed \cup DOMAIN confirmed

----------------------------------------------------------------------------
(* The first transaction of a block *)

\* C17: process never removes a confirmed coin or its proof because of an
\* input of the first transaction of the block, also when that input names a
\* confirmed coin: what is gone after the call was spent by an input of a later
\* transaction.  The inputs of every later transaction remove the confirmed
\* coins they reference, and the outputs of the first transaction are scanned
\* like those of any other.
CoinbaseExempt ==
    Called("process") =>
        LET block == Block(Last.arg)
            first == block.txdata[1]
        IN  /\ \A point \in DOMAIN Prev.confirmed :
                  IF SpentLater(block, 0, point)
                  THEN point \notin DOMAIN confirmed
                  ELSE point \in DOMAIN confirmed
            /\ \A txid \in DOMAIN Prev.proofs :
                  txid \notin DOMAIN proofs =>
                      \E point \in DOMAIN Prev.confirmed :
                          point.txid = txid /\ SpentLater(block, 0, point)
            /\ \A vout \in Scan(Prev.instantiated, first, 0, {}).owned :
                  \/ OutPoint(first.txid, vout) \in DOMAIN confirmed
                  \/ SpentLater(block, 0, OutPoint(first.txid, vout))

\* process(B5), whose first transaction T2 spends the confirmed T1:0, left
\* T1:0 and its proof in place and confirmed the output of T2
CoinbaseExempt_Witness ==
    /\ Called("process")
    /\ Last.arg = B5
    /\ Block(B5).txdata[1].input[1].previous_output = OutPoint(T1, 0)
    /\ OutPoint(T1, 0) \in DOMAIN Prev.confirmed
    /\ OutPoint(T1, 0) \in DOMAIN confirmed
    /\ T1 \in DOMAIN proofs
    /\ OutPoint(T2, 0) \notin DOMAIN Prev.confirmed
    /\ OutPoint(T2, 0) \in DOMAIN confirmed

----------------------------------------------------------------------------
(* What leaves unconfirmed *)

\* the last call was process and it confirmed an output at point
ConfirmedNow(point) ==
    /\ Called("process")
    /\ \E txnr \in 0 .. Len(Block(Last.arg).txdata) - 1 :
          /\ Block(Last.arg).txdata[txnr + 1].txid = point.txid
          /\ point.vout \in ScanBlock(Prev.instantiated, Block(Last.arg), txnr).owned

\* C18: spends never remove unconfirmed coins.  An entry leaves unconfirmed
\* only when process confirms an output at the same output reference; an input
\* that references an unconfirmed coin, in process_unconfirmed_transaction or
\* in process, and every call of remove_confirmed or unwind_tip leave the entry
\* in place, so unconfirmed_balance still counts the coin.
SpendsKeepUnconfirmed ==
    Len(hist) >= 2 =>
        \A point \in DOMAIN Prev.unconfirmed :
            IF ConfirmedNow(point)
            THEN point \notin DOMAIN unconfirmed
            ELSE /\ point \in DOMAIN unconfirmed
                 /\ unconfirmed[point] = Prev.unconfirmed[point]

\* process_unconfirmed_transaction(T2), whose input spends T1:0, found T1:0
\* unconfirmed only and left it there
SpendsKeepUnconfirmed_Witness ==
    /\ Called("process_unconfirmed_transaction")
    /\ Last.arg = T2
    /\ Tx(T2).input[1].previous_output = OutPoint(T1, 0)
    /\ OutPoint(T1, 0) \in DOMAIN Prev.unconfirmed
    /\ OutPoint(T1, 0) \notin DOMAIN Prev.confirmed
    /\ OutPoint(T1, 0) \in DOMAIN unconfirmed
    /\ UnconfirmedBalance >= 5000

----------------------------------------------------------------------------
(* Unwinding and spends (SpecH) *)

\* the last two calls were process(b), unwind_tip(b)
Unwound ==
    /\ Len(hist) >= 3
    /\ Last.op = "unwind_tip" /\ Prev.op = "process"
    /\ Last.arg = Prev.arg

\* the ledger process(b) found
Before == hist[Len(hist) - 2]

\* C19: unwind_tip does not undo spends.  unwind_tip never adds an entry to
\* confirmed or to proofs, so after process(B) and unwind_tip(B.hash) a
\* confirmed coin that a spend in B removed is not back in confirmed (and the
\* confirmed balance can be lower than it was before process(B)).
UnwindKeepsSpends ==
    /\ Called("unwind_tip") =>
          /\ DOMAIN confirmed \subseteq DOMAIN Prev.confirmed
          /\ DOMAIN proofs \subseteq DOMAIN Prev.proofs
    /\ Unwound =>
          \A point \in DOMAIN Before.confirmed \ DOMAIN Prev.confirmed :
              point \notin DOMAIN confirmed

\* process(B2) spent the confirmed T1:0; after unwind_tip(B2) it is not back
\* and the confirmed balance is lower than before process(B2)
UnwindKeepsSpends_Witness ==
    /\ Unwound
    /\ Last.arg = B2
    /\ OutPoint(T1, 0) \in DOMAIN Before.confirmed
    /\ OutPoint(T1, 0) \notin DOMAIN Prev.confirmed
    /\ OutPoint(T1, 0) \notin DOMAIN confirmed
    /\ ConfirmedBalance < Balance(Before.confirmed)

====
